---- MODULE Spec2Model ----
(***************************************************************************)
(* Robust command execution engine of the NGINX tools MCP server           *)
(* (src/src/index.js): createResult, the three execution strategies        *)
(* (spawn / exec / execSync) and the cascade executeDockerCommandRobust,   *)
(* run on the single-threaded Node.js event loop.                          *)
(*                                                                         *)
(* Encoding of JavaScript values:                                          *)
(*   - texts are strings; "" is the empty string;                          *)
(*   - an exit code is the decimal string of the number ("0", "1", "124"), *)
(*     "null" is JS null, "ENOENT" is a string error code;                 *)
(*   - Undefined stands for an absent (undefined) property;                *)
(*   - a flag the code only ever sets to true (debug.timeout,              *)
(*     debug.fallbackUsed) is FALSE when the property is absent;           *)
(*   - debug.timestamp (wall clock) is not modelled.                       *)
(*                                                                         *)
(* The second part models the start of the server (config.json and the     *)
(* environment) and the handlers of the registered operations, which       *)
(* await executeDockerCommandRobust or an HTTP request and answer a text.   *)
(***************************************************************************)
EXTENDS Integers, Sequences, FiniteSets, TLC

\* ---- bounds of the environment ----
MaxText == 1      \* number of distinct non-empty output texts
MaxExit == 2      \* largest non-zero exit status a command reports

TextPool == <<"alpha", "beta", "gamma", "delta">>
Texts == {""} \cup {TextPool[i] : i \in 1..MaxText}

CodePool == <<"1", "2", "3", "4">>
ExitCodes == {CodePool[i] : i \in 1..MaxExit}

Undefined == "undefined"
Null == "null"

\* JS truthiness of the encoded values: '', 0, null, undefined are falsy
Falsy == {"", "0", Null, Undefined}

\* a || b
Or(a, b) == IF a \in Falsy THEN b ELSE a

\* ---- the calls issued by the handlers ----
\* opensslCmd of nginx_ssl_generate_self_signed, shortened to its first words:
\* one argument that contains blanks
OpensslCmd == "openssl req -x509"

\* argument vectors the handlers pass: nginx_logs_basic (call 1), the first
\* two calls nginx_docker_diagnostics issues through Promise.all (calls 2
\* and 3), the certificate call of nginx_ssl_generate_self_signed (call 4)
\* and the call of a second nginx_logs_basic request (call 5)
CallArgs == << <<"compose", "logs", "--tail", "10", "nginx">>,
               <<"--version">>,
               <<"compose", "version">>,
               <<"exec", "nginx-server", "sh", "-c", OpensslCmd>>,
               <<"compose", "logs", "--tail", "10", "nginx">> >>
Calls == 1..Len(CallArgs)
ArgsOf(c) == CallArgs[c]
\* the call a handler such as nginx_logs_basic issues and awaits
LogsCalls == {1}
\* the calls nginx_docker_diagnostics has in flight together
DiagnosticsCalls == {2, 3}
\* the call of nginx_ssl_generate_self_signed that passes a shell script
SslCalls == {4}
\* the calls of two nginx_logs_basic requests: the same arguments twice
RepeatCalls == {1, 5}

RECURSIVE Join(_)
\* args.join(' ')
Join(args) ==
    IF Len(args) = 0 THEN ""
    ELSE IF Len(args) = 1 THEN args[1]
    ELSE args[1] \o " " \o Join(Tail(args))

\* `docker ${args.join(' ')}`
Command(args) == "docker " \o Join(args)

TimedOutMessage == "Command timed out after 15 seconds"
AllFailedPrefix == "All execution methods failed. Last error: "

\* ---- createResult ----
createResult(stdout, stderr, code, method, command, error, timeout) ==
    [ stdout  |-> stdout,
      stderr  |-> stderr,
      code    |-> Or(code, "0"),
      success |-> (code = "0"),
      debug   |-> [ command        |-> Or(command, ""),
                    method         |-> method,
                    error          |-> IF error \in Falsy THEN Undefined ELSE error,
                    timeout        |-> timeout,
                    fallbackUsed   |-> FALSE,
                    syncFallback   |-> FALSE,
                    primaryError   |-> Undefined,
                    secondaryError |-> Undefined ] ]

\* a result variable that has not been assigned yet
Unset == createResult(Undefined, Undefined, Undefined, "unset", "", Null, FALSE)

\* ---- what the operating system can make of one attempt ----
\* the message of the 'error' event of a child that could not be spawned
SpawnErrorMessage == "spawn docker ENOENT"
\* the code the 'close' event carries after such an 'error' event (-errno)
SpawnErrorCloseCode == "-2"
\* codes of a 'close' event: null when the child was ended by a signal
CloseCodes == {Null, "0"} \cup ExitCodes

ExecErrorMessage == "Command failed"
\* execAsync(command, ...): resolves {stdout, stderr}, or rejects with an
\* error carrying stdout, stderr, message, code (exit status, a string code
\* when the shell could not be spawned, null when ended by a signal) and
\* killed (true when exec ended the child because TIMEOUT elapsed)
ExecOutcomes ==
    {[ok |-> TRUE, stdout |-> o, stderr |-> e, message |-> "", code |-> "0", killed |-> FALSE] :
        o \in Texts, e \in Texts}
    \cup
    {[ok |-> FALSE, stdout |-> o, stderr |-> e, message |-> ExecErrorMessage, code |-> k,
      killed |-> FALSE] :
        o \in Texts, e \in Texts, k \in ExitCodes \cup {Null}}
    \cup
    {[ok |-> FALSE, stdout |-> o, stderr |-> e, message |-> ExecErrorMessage, code |-> Null,
      killed |-> TRUE] :
        o \in Texts, e \in Texts}
    \cup
    {[ok |-> FALSE, stdout |-> "", stderr |-> "", message |-> ExecErrorMessage, code |-> "ENOENT",
      killed |-> FALSE]}

\* execSync(command, ...): returns the output text, or throws an error
\* carrying stderr, message, status (null when the shell did not exit by
\* itself) and code ('ETIMEDOUT' when TIMEOUT elapsed)
SyncOutcomes ==
    {[ok |-> TRUE, stdout |-> o, stderr |-> "", message |-> "", status |-> "0",
      code |-> Undefined] : o \in Texts}
    \cup
    {[ok |-> FALSE, stdout |-> "", stderr |-> e, message |-> ExecErrorMessage, status |-> k,
      code |-> Undefined] :
        e \in Texts, k \in ExitCodes \cup {Null}}
    \cup
    {[ok |-> FALSE, stdout |-> "", stderr |-> e, message |-> ExecErrorMessage, status |-> Null,
      code |-> "ETIMEDOUT"] :
        e \in Texts}

\* a smaller choice of outcomes for calls that are in flight together:
\* no output text, exit status 0 or 1
QuietCloseCodes == {Null, "0", CodePool[1]}
QuietTexts == {""}
QuietExecOutcomes ==
    {raw \in ExecOutcomes : raw.stdout = "" /\ raw.stderr = "" /\ raw.code \in {"0", CodePool[1]}}
QuietSyncOutcomes ==
    {raw \in SyncOutcomes : raw.stdout = "" /\ raw.stderr = "" /\ raw.status \in {"0", CodePool[1]}}

\* ---- state ----
VARIABLES
    pc,           \* position of each executeDockerCommandRobust call
    procs,        \* strategies of the call whose external process is running
    events,       \* child events of the streaming attempt not yet handled
    timer,        \* the setTimeout timer of the streaming attempt
    sigterm,      \* child.kill('SIGTERM') has been called
    spawnResult,  \* value the promise of executeDockerCommand resolved with
    execResult,   \* value returned by executeDockerCommandAlt
    syncResult,   \* value returned by executeDockerCommandSync
    result,       \* value executeDockerCommandRobust returned
    launched,     \* strategies started by the call, in order
    requests,     \* what each started strategy was given, in order
    observed,     \* what the operating system delivered to the call's strategies
    host,         \* 0, or the call whose synchronous code holds the event loop
    server,       \* the server process: environment, config.json, settings read from them
    handler       \* the request being served: operation, position, commands issued, answer

vars == <<pc, procs, events, timer, sigterm, spawnResult, execResult,
          syncResult, result, launched, requests, observed, host, server, handler>>

Free == 0

\* ---- the start of the server: lines 15-29 ----
\* process.env: the variables the README names, Undefined when not set
Envs ==
    [ NGINX_HOST  : {Undefined, "nginx.example"},
      NGINX_PORT  : {Undefined, "9090"},
      PROJECT_DIR : {Undefined, "/srv/from-env"} ]
NoEnv == [NGINX_HOST |-> Undefined, NGINX_PORT |-> Undefined, PROJECT_DIR |-> Undefined]

\* config.json: its parsed content, or found = FALSE when readFileSync throws
ExampleConfig ==
    [ found   |-> TRUE,
      nginx   |-> [host |-> "localhost", port |-> "8080"],
      project |-> [directory |-> "/srv/from-config"] ]
MissingConfig ==
    [ found   |-> FALSE,
      nginx   |-> [host |-> Undefined, port |-> Undefined],
      project |-> [directory |-> Undefined] ]
ConfigFiles == {ExampleConfig, MissingConfig}

\* the process before index.js has been evaluated
Loading(env, file) ==
    [ status |-> "loading", env |-> env, config |-> file,
      PROJECT_DIR |-> Undefined, NGINX_URL |-> Undefined, DOCKER_ENV |-> NoEnv ]

\* the top of index.js: config.json is read (process.exit(1) when that
\* fails), then PROJECT_DIR, NGINX_URL and DOCKER_ENV (a copy of
\* process.env) are computed
LoadConfig(s) ==
    IF ~s.config.found
    THEN [s EXCEPT !.status = "exited"]
    ELSE [s EXCEPT !.status = "up",
                   !.PROJECT_DIR = Or(s.env.PROJECT_DIR, s.config.project.directory),
                   !.NGINX_URL = "http://" \o s.config.nginx.host \o ":" \o s.config.nginx.port,
                   !.DOCKER_ENV = s.env]

\* no request is being served
Idle ==
    [ op |-> "none", status |-> "idle", request |-> <<>>, args |-> <<>>, domain |-> Undefined,
      pos |-> "", issued |-> <<>>, passed |-> <<>>, last |-> Unset,
      expiry |-> [valid |-> FALSE, days |-> 0], method |-> Undefined, answer |-> Undefined ]

\* ---- the request each strategy hands to the operating system ----
\* the settings the server computed when it started (lines 25, 27, 28)
PROJECT_DIR == server.PROJECT_DIR
DOCKER_ENV == server.DOCKER_ENV
TIMEOUT == 15000

\* the words /bin/sh splits one joined argument into (blanks separate words)
ShellWords(arg) ==
    IF arg = OpensslCmd THEN <<"openssl", "req", "-x509">> ELSE <<arg>>

RECURSIVE ShellSplit(_)
\* the argument vector /bin/sh builds from args.join(' ')
ShellSplit(args) ==
    IF Len(args) = 0 THEN <<>>
    ELSE ShellWords(args[1]) \o ShellSplit(Tail(args))

\* spawn('docker', args, { cwd: PROJECT_DIR, env: DOCKER_ENV, ... }) with the
\* timer of TIMEOUT ms: the child receives args as they are
SpawnRequest(args) ==
    [ argv |-> <<"docker">> \o args, cwd |-> PROJECT_DIR, env |-> DOCKER_ENV,
      timeout |-> TIMEOUT ]

\* execAsync(command, { cwd: PROJECT_DIR, timeout: TIMEOUT, env: DOCKER_ENV }):
\* the command line goes through the shell
ExecRequest(args) ==
    [ argv |-> <<"docker">> \o ShellSplit(args), cwd |-> PROJECT_DIR, env |-> DOCKER_ENV,
      timeout |-> TIMEOUT ]

\* execSync(command, { cwd: PROJECT_DIR, encoding: 'utf8', timeout: TIMEOUT, env: DOCKER_ENV })
ExecSyncRequest(args) ==
    [ argv |-> <<"docker">> \o ShellSplit(args), cwd |-> PROJECT_DIR, env |-> DOCKER_ENV,
      timeout |-> TIMEOUT ]

EngineInit ==
    /\ pc = [c \in Calls |-> "idle"]
    /\ procs = [c \in Calls |-> {}]
    /\ events = [c \in Calls |-> <<>>]
    /\ timer = [c \in Calls |-> "unset"]
    /\ sigterm = [c \in Calls |-> FALSE]
    /\ spawnResult = [c \in Calls |-> Unset]
    /\ execResult = [c \in Calls |-> Unset]
    /\ syncResult = [c \in Calls |-> Unset]
    /\ result = [c \in Calls |-> Unset]
    /\ launched = [c \in Calls |-> <<>>]
    /\ requests = [c \in Calls |-> <<>>]
    /\ observed = [c \in Calls |-> <<>>]
    /\ host = Free

\* the engine under a server that started from config.json alone
Init ==
    /\ EngineInit
    /\ server = LoadConfig(Loading(NoEnv, ExampleConfig))
    /\ handler = Idle


\* ---- the streaming strategy: executeDockerCommand ----
\* mutant: the timeout reported as an ordinary failure
TimeoutResultAsFailure(args) ==
    createResult("", TimedOutMessage, "1", "spawn", Command(args), Null, FALSE)

\* resolve(createResult('', 'Command timed out ...', 124, 'spawn', command, null, true))
TimeoutResult(args) ==
    createResult("", TimedOutMessage, "124", "spawn", Command(args), Null, TRUE)

\* mutant: a close without an exit code counted as exit code 0
CloseResultNullOk(args, stdout, stderr, code) ==
    createResult(stdout, stderr, Or(code, "0"), "spawn", Command(args), Null, FALSE)

\* resolve(createResult(stdout, stderr, code, 'spawn', command))
CloseResult(args, stdout, stderr, code) ==
    createResult(stdout, stderr, code, "spawn", Command(args), Null, FALSE)

\* mutant: the error message not handed to createResult
ErrorResultNoMessage(args, message) ==
    createResult("", message, "1", "spawn", Command(args), Null, FALSE)

\* resolve(createResult('', error.message, 1, 'spawn', command, error.message))
ErrorResult(args, message) ==
    createResult("", message, "1", "spawn", Command(args), message, FALSE)

\* mutant: the handlers do not cancel the timer
clearTimeoutMissing(t) == t

\* clearTimeout(timeout): cancels a timer whose callback has not run
clearTimeout(t) == IF t \in {"armed", "expired"} THEN "cleared" ELSE t

\* mutant: no timer is armed
setTimeoutMissing == "unset"

\* setTimeout(..., TIMEOUT)
setTimeout == "armed"

\* ---- the buffered strategy: executeDockerCommandAlt ----
\* mutant: the partial stdout of a failure dropped
executeDockerCommandAltNoStdout(args, raw) ==
    [ threw |-> FALSE,
      value |-> IF raw.ok
                THEN createResult(raw.stdout, raw.stderr, "0", "exec", Command(args), Null, FALSE)
                ELSE createResult("", Or(raw.stderr, raw.message),
                                  Or(raw.code, "1"), "exec", Command(args), raw.message, FALSE) ]

\* a completion: the value returned, or threw = TRUE when an exception escapes
executeDockerCommandAlt(args, raw) ==
    [ threw |-> FALSE,
      value |-> IF raw.ok
                THEN createResult(raw.stdout, raw.stderr, "0", "exec", Command(args), Null, FALSE)
                ELSE createResult(Or(raw.stdout, ""), Or(raw.stderr, raw.message),
                                  Or(raw.code, "1"), "exec", Command(args), raw.message, FALSE) ]

\* mutant: execSync called without try/catch
executeDockerCommandSyncNoCatch(args, raw) ==
    [ threw |-> ~raw.ok,
      value |-> createResult(raw.stdout, "", "0", "execSync", Command(args), Null, FALSE) ]

\* ---- the synchronous strategy: executeDockerCommandSync ----
executeDockerCommandSync(args, raw) ==
    [ threw |-> FALSE,
      value |-> IF raw.ok
                THEN createResult(raw.stdout, "", "0", "execSync", Command(args), Null, FALSE)
                ELSE createResult("", Or(raw.stderr, raw.message),
                                  Or(raw.status, "1"), "execSync", Command(args), raw.message, FALSE) ]

\* ---- the values executeDockerCommandRobust returns ----
\* mutant: the exec fallback returned without primaryError
ExecFallbackNoPrior(exec, spawn) ==
    [exec EXCEPT !.debug.fallbackUsed = TRUE]

\* mutant: the streaming outcome spread instead of the exec outcome
ExecFallbackOfSpawn(exec, spawn) ==
    [spawn EXCEPT !.debug.fallbackUsed = TRUE, !.debug.primaryError = spawn.stderr]

\* mutant: primaryError read from a text shared by all calls, to which
\* every failed streaming attempt appends its stderr
ExecFallbackShared(exec, spawn) ==
    [exec EXCEPT !.debug.fallbackUsed = TRUE,
                 !.debug.primaryError =
                     Join([d \in Calls |-> IF spawnResult[d] = Unset THEN "" ELSE spawnResult[d].stderr])]

\* { ...execResult, debug: { ...execResult.debug, fallbackUsed: true, primaryError: spawnResult.stderr } }
ExecFallback(exec, spawn) ==
    [exec EXCEPT !.debug.fallbackUsed = TRUE, !.debug.primaryError = spawn.stderr]

\* mutant: primaryError and secondaryError exchanged
SyncFallbackSwapped(sync, spawn, exec) ==
    [sync EXCEPT !.debug.fallbackUsed = TRUE,
                 !.debug.primaryError = exec.stderr,
                 !.debug.secondaryError = spawn.stderr]

\* mutant: the synchronous fallback marked with debug.syncFallback
SyncFallbackFlagged(sync, spawn, exec) ==
    [sync EXCEPT !.debug.fallbackUsed = TRUE,
                 !.debug.syncFallback = TRUE,
                 !.debug.primaryError = spawn.stderr,
                 !.debug.secondaryError = exec.stderr]

\* { ...syncResult, debug: { ..., fallbackUsed: true, primaryError, secondaryError } }
SyncFallback(sync, spawn, exec) ==
    [sync EXCEPT !.debug.fallbackUsed = TRUE,
                 !.debug.primaryError = spawn.stderr,
                 !.debug.secondaryError = exec.stderr]

\* mutant: the synchronous strategy's outcome returned as it is
AllFailedRaw(args, sync) == sync

\* mutant: the all-failed outcome carrying the synchronous attempt's exit code
AllFailedWithCode(args, sync) ==
    createResult("", AllFailedPrefix \o sync.stderr, sync.code, "all_failed", Command(args), Null, FALSE)

\* createResult('', `All execution methods failed. Last error: ${syncResult.stderr}`, 1, 'all_failed', ...)
AllFailed(args, sync) ==
    createResult("", AllFailedPrefix \o sync.stderr, "1", "all_failed", Command(args), Null, FALSE)

\* ---- actions ----
\* Promise.all([f(a), f(b)]) (lines 136-140) evaluates its array in one
\* synchronous block: the second call is issued right after the first one,
\* before any callback can run. Every other handler issues its call alone.
InBatch(c) == c \in DiagnosticsCalls /\ c - 1 \in DiagnosticsCalls
BatchNext(c) == IF c \in DiagnosticsCalls /\ c + 1 \in DiagnosticsCalls THEN c + 1 ELSE Free

\* mutant: the buffered strategy started together with the streaming one
RobustCallParallel(c, started) ==
    /\ host = (IF InBatch(c) THEN c ELSE Free)
    /\ host' = BatchNext(c)
    /\ pc[c] = "idle"
    /\ pc' = [pc EXCEPT ![c] = "spawn"]
    /\ launched' = [launched EXCEPT ![c] = @ \o <<"spawn", "exec">>]
    /\ requests' = [requests EXCEPT ![c] = @ \o <<SpawnRequest(ArgsOf(c)), ExecRequest(ArgsOf(c))>>]
    /\ procs' = [procs EXCEPT ![c] = @ \cup (IF started THEN {"spawn", "exec"} ELSE {"exec"})]
    /\ events' = [events EXCEPT ![c] =
          IF started THEN @
          ELSE <<[type |-> "error", code |-> SpawnErrorCloseCode, inTime |-> TRUE],
                 [type |-> "close", code |-> SpawnErrorCloseCode, inTime |-> TRUE]>>]
    /\ timer' = [timer EXCEPT ![c] = setTimeout]
    /\ UNCHANGED <<sigterm, spawnResult, execResult, syncResult, result>>
    /\ UNCHANGED observed
    /\ UNCHANGED <<server, handler>>

\* mutant: a call is issued only while no other call has a process running
RobustCallExclusive(c, started) ==
    /\ \A d \in Calls \ {c} : procs[d] = {}
    /\ host = (IF InBatch(c) THEN c ELSE Free)
    /\ host' = BatchNext(c)
    /\ pc[c] = "idle"
    /\ pc' = [pc EXCEPT ![c] = "spawn"]
    /\ launched' = [launched EXCEPT ![c] = Append(@, "spawn")]
    /\ requests' = [requests EXCEPT ![c] = Append(@, SpawnRequest(ArgsOf(c)))]
    /\ IF started
       THEN /\ procs' = [procs EXCEPT ![c] = @ \cup {"spawn"}]
            /\ UNCHANGED events
       ELSE /\ events' = [events EXCEPT ![c] =
                  <<[type |-> "error", code |-> SpawnErrorCloseCode, inTime |-> TRUE],
                    [type |-> "close", code |-> SpawnErrorCloseCode, inTime |-> TRUE]>>]
            /\ UNCHANGED procs
    /\ timer' = [timer EXCEPT ![c] = setTimeout]
    /\ UNCHANGED <<sigterm, spawnResult, execResult, syncResult, result>>
    /\ UNCHANGED observed
    /\ UNCHANGED <<server, handler>>

\* A handler calls executeDockerCommandRobust(args): executeDockerCommand
\* spawns the child and arms the timer; the call then awaits the promise.
\* started = FALSE: the OS cannot start the process (binary or working
\* directory missing); Node then emits 'error' and afterwards 'close'.
RobustCall(c, started) ==
    /\ host = (IF InBatch(c) THEN c ELSE Free)
    /\ host' = BatchNext(c)
    /\ pc[c] = "idle"
    /\ pc' = [pc EXCEPT ![c] = "spawn"]
    /\ launched' = [launched EXCEPT ![c] = Append(@, "spawn")]
    /\ requests' = [requests EXCEPT ![c] = Append(@, SpawnRequest(ArgsOf(c)))]
    /\ IF started
       THEN /\ procs' = [procs EXCEPT ![c] = @ \cup {"spawn"}]
            /\ UNCHANGED events
       ELSE /\ events' = [events EXCEPT ![c] =
                  <<[type |-> "error", code |-> SpawnErrorCloseCode, inTime |-> TRUE],
                    [type |-> "close", code |-> SpawnErrorCloseCode, inTime |-> TRUE]>>]
            /\ UNCHANGED procs
    /\ timer' = [timer EXCEPT ![c] = setTimeout]
    /\ UNCHANGED <<sigterm, spawnResult, execResult, syncResult, result>>
    /\ UNCHANGED observed
    /\ UNCHANGED <<server, handler>>

\* The streaming child exits (outside the event loop): 'close' becomes pending.
\* inTime tells whether it exited before TIMEOUT milliseconds had passed.
ChildExit(c, code) ==
    /\ "spawn" \in procs[c]
    /\ procs' = [procs EXCEPT ![c] = @ \ {"spawn"}]
    /\ events' = [events EXCEPT ![c] =
          Append(@, [type |-> "close", code |-> code, inTime |-> (timer[c] = "armed")])]
    /\ UNCHANGED <<pc, timer, sigterm, spawnResult, execResult, syncResult,
                   result, launched, requests, host>>
    /\ UNCHANGED observed
    /\ UNCHANGED <<server, handler>>

\* TIMEOUT milliseconds have passed since setTimeout (outside the event loop).
\* The 'error' event of a failed spawn is dispatched by process.nextTick,
\* right after the code that called spawn, so it is never still pending.
TimerExpire(c) ==
    /\ timer[c] = "armed"
    /\ \A i \in 1..Len(events[c]) : events[c][i].type # "error"
    /\ timer' = [timer EXCEPT ![c] = "expired"]
    /\ UNCHANGED <<pc, procs, events, sigterm, spawnResult, execResult,
                   syncResult, result, launched, requests, host>>
    /\ UNCHANGED observed
    /\ UNCHANGED <<server, handler>>

\* mutant: no early return when the streaming attempt succeeded
AwaitSpawnNoReturn(c, r) ==
    /\ pc' = [pc EXCEPT ![c] = "exec"]
    /\ launched' = [launched EXCEPT ![c] = Append(@, "exec")]
    /\ requests' = [requests EXCEPT ![c] = Append(@, ExecRequest(ArgsOf(c)))]
    /\ procs' = [procs EXCEPT ![c] = @ \cup {"exec"}]
    /\ UNCHANGED result

\* mutant: a streaming outcome with a non-zero exit code returned as it is
AwaitSpawnVerbatim(c, r) ==
    IF r.success \/ (r.code \in ExitCodes /\ r.debug.error = Undefined)
    THEN /\ pc' = [pc EXCEPT ![c] = "returned"]
         /\ result' = [result EXCEPT ![c] = r]
         /\ UNCHANGED <<procs, launched, requests>>
    ELSE /\ pc' = [pc EXCEPT ![c] = "exec"]
         /\ launched' = [launched EXCEPT ![c] = Append(@, "exec")]
         /\ requests' = [requests EXCEPT ![c] = Append(@, ExecRequest(ArgsOf(c)))]
         /\ procs' = [procs EXCEPT ![c] = @ \cup {"exec"}]
         /\ UNCHANGED result

\* The continuation of `await executeDockerCommand(args)` (lines 95-98); it
\* runs as a microtask of the callback that resolved the promise.
AwaitSpawn(c, r) ==
    IF r.success
    THEN /\ pc' = [pc EXCEPT ![c] = "returned"]
         /\ result' = [result EXCEPT ![c] = r]
         /\ UNCHANGED <<procs, launched, requests>>
    ELSE /\ pc' = [pc EXCEPT ![c] = "exec"]
         /\ launched' = [launched EXCEPT ![c] = Append(@, "exec")]
         /\ requests' = [requests EXCEPT ![c] = Append(@, ExecRequest(ArgsOf(c)))]
         /\ procs' = [procs EXCEPT ![c] = @ \cup {"exec"}]
         /\ UNCHANGED result

\* resolve(r): settles the promise once; later calls have no effect.
Resolve(c, r) ==
    IF spawnResult[c] = Unset
    THEN /\ spawnResult' = [spawnResult EXCEPT ![c] = r]
         /\ AwaitSpawn(c, r)
    ELSE UNCHANGED <<spawnResult, pc, result, procs, launched, requests>>

\* mutant: the timeout callback without child.kill('SIGTERM')
OnTimeoutNoKill(c) ==
    /\ host = Free
    /\ timer[c] = "expired"
    /\ timer' = [timer EXCEPT ![c] = "fired"]
    /\ Resolve(c, TimeoutResult(ArgsOf(c)))
    /\ UNCHANGED <<sigterm, events, execResult, syncResult, host>>
    /\ observed' = [observed EXCEPT ![c] =
          IF spawnResult[c] = Unset THEN Append(@, [by |-> "timer"]) ELSE @]
    /\ UNCHANGED <<server, handler>>

\* the setTimeout callback (lines 57-60)
OnTimeout(c) ==
    /\ host = Free
    /\ timer[c] = "expired"
    /\ timer' = [timer EXCEPT ![c] = "fired"]
    /\ sigterm' = [sigterm EXCEPT ![c] = TRUE]
    /\ Resolve(c, TimeoutResult(ArgsOf(c)))
    /\ UNCHANGED <<events, execResult, syncResult, host>>
    /\ observed' = [observed EXCEPT ![c] =
          IF spawnResult[c] = Unset THEN Append(@, [by |-> "timer"]) ELSE @]
    /\ UNCHANGED <<server, handler>>

\* child.on('close', ...) (lines 62-65); stdout, stderr: the data accumulated
OnClose(c, stdout, stderr) ==
    /\ host = Free
    /\ events[c] # <<>>
    /\ Head(events[c]).type = "close"
    /\ events' = [events EXCEPT ![c] = Tail(@)]
    /\ timer' = [timer EXCEPT ![c] = clearTimeout(@)]
    /\ Resolve(c, CloseResult(ArgsOf(c), stdout, stderr, Head(events[c]).code))
    /\ UNCHANGED <<sigterm, execResult, syncResult, host>>
    /\ observed' = [observed EXCEPT ![c] =
          IF spawnResult[c] = Unset THEN Append(@, [by |-> "close", code |-> Head(events[c]).code, stdout |-> stdout, stderr |-> stderr]) ELSE @]
    /\ UNCHANGED <<server, handler>>

\* child.on('error', ...) (lines 67-70)
OnError(c) ==
    /\ host = Free
    /\ events[c] # <<>>
    /\ Head(events[c]).type = "error"
    /\ events' = [events EXCEPT ![c] = Tail(@)]
    /\ timer' = [timer EXCEPT ![c] = clearTimeout(@)]
    /\ Resolve(c, ErrorResult(ArgsOf(c), SpawnErrorMessage))
    /\ UNCHANGED <<sigterm, execResult, syncResult, host>>
    /\ observed' = [observed EXCEPT ![c] =
          IF spawnResult[c] = Unset THEN Append(@, [by |-> "error", message |-> SpawnErrorMessage]) ELSE @]
    /\ UNCHANGED <<server, handler>>

\* mutant: the synchronous attempt started without holding the event loop
ExecCallbackNonBlocking(c, raw) ==
    /\ host = Free
    /\ pc[c] = "exec"
    /\ LET done == executeDockerCommandAlt(ArgsOf(c), raw) IN
       IF done.threw
       THEN /\ pc' = [pc EXCEPT ![c] = "rejected"]
            /\ procs' = [procs EXCEPT ![c] = @ \ {"exec"}]
            /\ UNCHANGED <<execResult, result, launched, requests, host>>
       ELSE /\ execResult' = [execResult EXCEPT ![c] = done.value]
            /\ IF done.value.success
               THEN /\ pc' = [pc EXCEPT ![c] = "returned"]
                    /\ result' = [result EXCEPT ![c] = ExecFallback(done.value, spawnResult[c])]
                    /\ procs' = [procs EXCEPT ![c] = @ \ {"exec"}]
                    /\ UNCHANGED <<launched, requests, host>>
               ELSE /\ pc' = [pc EXCEPT ![c] = "sync"]
                    /\ launched' = [launched EXCEPT ![c] = Append(@, "execSync")]
                    /\ requests' = [requests EXCEPT ![c] = Append(@, ExecSyncRequest(ArgsOf(c)))]
                    /\ procs' = [procs EXCEPT ![c] = (@ \ {"exec"}) \cup {"execSync"}]
                    /\ host' = Free
                    /\ UNCHANGED result
    /\ UNCHANGED <<events, timer, sigterm, spawnResult, syncResult>>
    /\ observed' = [observed EXCEPT ![c] = Append(@, [by |-> "exec", raw |-> raw])]
    /\ UNCHANGED <<server, handler>>

\* execAsync settles: the rest of executeDockerCommandAlt and the
\* continuation of `await executeDockerCommandAlt(args)` (lines 98-101);
\* on failure execSync starts at once and blocks the event loop.
ExecCallback(c, raw) ==
    /\ host = Free
    /\ pc[c] = "exec"
    /\ LET done == executeDockerCommandAlt(ArgsOf(c), raw) IN
       IF done.threw
       THEN /\ pc' = [pc EXCEPT ![c] = "rejected"]
            /\ procs' = [procs EXCEPT ![c] = @ \ {"exec"}]
            /\ UNCHANGED <<execResult, result, launched, requests, host>>
       ELSE /\ execResult' = [execResult EXCEPT ![c] = done.value]
            /\ IF done.value.success
               THEN /\ pc' = [pc EXCEPT ![c] = "returned"]
                    /\ result' = [result EXCEPT ![c] = ExecFallback(done.value, spawnResult[c])]
                    /\ procs' = [procs EXCEPT ![c] = @ \ {"exec"}]
                    /\ UNCHANGED <<launched, requests, host>>
               ELSE /\ pc' = [pc EXCEPT ![c] = "sync"]
                    /\ launched' = [launched EXCEPT ![c] = Append(@, "execSync")]
                    /\ requests' = [requests EXCEPT ![c] = Append(@, ExecSyncRequest(ArgsOf(c)))]
                    /\ procs' = [procs EXCEPT ![c] = (@ \ {"exec"}) \cup {"execSync"}]
                    /\ host' = c
                    /\ UNCHANGED result
    /\ UNCHANGED <<events, timer, sigterm, spawnResult, syncResult>>
    /\ observed' = [observed EXCEPT ![c] = Append(@, [by |-> "exec", raw |-> raw])]
    /\ UNCHANGED <<server, handler>>

\* execSync returns or throws: the rest of executeDockerCommandSync and of
\* executeDockerCommandRobust (lines 101-104).
SyncReturn(c, raw) ==
    /\ host = c
    /\ pc[c] = "sync"
    /\ host' = Free
    /\ procs' = [procs EXCEPT ![c] = @ \ {"execSync"}]
    /\ LET done == executeDockerCommandSync(ArgsOf(c), raw) IN
       IF done.threw
       THEN /\ pc' = [pc EXCEPT ![c] = "rejected"]
            /\ UNCHANGED <<syncResult, result>>
       ELSE /\ syncResult' = [syncResult EXCEPT ![c] = done.value]
            /\ pc' = [pc EXCEPT ![c] = "returned"]
            /\ result' = [result EXCEPT ![c] =
                  IF done.value.success
                  THEN SyncFallback(done.value, spawnResult[c], execResult[c])
                  ELSE AllFailed(ArgsOf(c), done.value)]
    /\ UNCHANGED <<events, timer, sigterm, spawnResult, execResult, launched, requests>>
    /\ observed' = [observed EXCEPT ![c] = Append(@, [by |-> "execSync", raw |-> raw])]
    /\ UNCHANGED <<server, handler>>

\* The steps of the calls in S, the operating system choosing among the
\* given close codes, output texts and exec / execSync outcomes.
NextOf(S, codes, texts, execs, syncs) ==
    \/ \E c \in S, started \in BOOLEAN : RobustCall(c, started)
    \/ \E c \in S, code \in codes : ChildExit(c, code)
    \/ \E c \in S : TimerExpire(c)
    \/ \E c \in S : OnTimeout(c)
    \/ \E c \in S, o \in texts, e \in texts : OnClose(c, o, e)
    \/ \E c \in S : OnError(c)
    \/ \E c \in S, raw \in execs : ExecCallback(c, raw)
    \/ \E c \in S, raw \in syncs : SyncReturn(c, raw)

\* One handler issuing one executeDockerCommandRobust call.
Next == NextOf(LogsCalls, CloseCodes, Texts, ExecOutcomes, SyncOutcomes)

Spec == Init /\ [][Next]_vars

\* Fairness of the event loop: a timer that was armed expires, a pending
\* callback runs, and exec and execSync come back (both carry the timeout option).
LiveSpec ==
    /\ Spec
    /\ \A c \in LogsCalls :
        /\ WF_vars(TimerExpire(c))
        /\ WF_vars(OnTimeout(c))
        /\ WF_vars(\E o \in Texts, e \in Texts : OnClose(c, o, e))
        /\ WF_vars(OnError(c))
        /\ WF_vars(\E raw \in ExecOutcomes : ExecCallback(c, raw))
        /\ WF_vars(\E raw \in SyncOutcomes : SyncReturn(c, raw))

\* nginx_ssl_generate_self_signed issuing its certificate call.
SslNext == NextOf(SslCalls, CloseCodes, Texts, ExecOutcomes, SyncOutcomes)
SslSpec == Init /\ [][SslNext]_vars

\* nginx_logs_basic requested twice, the requests overlapping or not.
RepeatNext ==
    NextOf(RepeatCalls, QuietCloseCodes, QuietTexts, QuietExecOutcomes, QuietSyncOutcomes)
RepeatSpec == Init /\ [][RepeatNext]_vars

\* nginx_docker_diagnostics: two calls in flight together.
DiagnosticsNext ==
    NextOf(DiagnosticsCalls, QuietCloseCodes, QuietTexts, QuietExecOutcomes, QuietSyncOutcomes)
DiagnosticsSpec == Init /\ [][DiagnosticsNext]_vars

\* ======================= the registered operations =======================

\* ---- what a handler gets back from `await executeDockerCommandRobust(args)` ----
\* the outcomes of exec or execSync with the given texts as standard output
WithStdout(raws, outs) ==
    {[raw EXCEPT !.stdout = o] : raw \in {x \in raws : x.ok}, o \in outs}
    \cup {raw \in raws : ~raw.ok}

\* executeDockerCommandRobust as a relation (lines 94-105): every value the
\* cascade returns for some outcome of its three strategies
RobustResultsOf(args, codes, outs, errs, execs, syncs) ==
    LET spawned == {CloseResult(args, o, e, k) : o \in outs, e \in errs, k \in codes}
                   \cup {TimeoutResult(args), ErrorResult(args, SpawnErrorMessage)}
        execed  == {executeDockerCommandAlt(args, raw).value : raw \in execs}
        synced  == {executeDockerCommandSync(args, raw).value : raw \in syncs}
        spawnFailed == {x \in spawned : ~x.success}
        execFailed  == {x \in execed : ~x.success}
    IN  {x \in spawned : x.success}
        \cup {ExecFallback(ex, sp) : ex \in {x \in execed : x.success}, sp \in spawnFailed}
        \cup {SyncFallback(sy, sp, ex) :
                sy \in {x \in synced : x.success}, sp \in spawnFailed, ex \in execFailed}
        \cup {AllFailed(args, sy) : sy \in {x \in synced : ~x.success}}

\* the engine returns no value outside that relation
ResultsCovered ==
    \A c \in Calls :
        pc[c] = "returned" =>
            result[c] \in RobustResultsOf(ArgsOf(c), CloseCodes, Texts, Texts,
                                          ExecOutcomes, SyncOutcomes)

\* ---- the commands of the handlers ----
MkdirArgs == <<"exec", "nginx-server", "mkdir", "-p", "/etc/nginx/ssl">>
OpensslArgs == <<"exec", "nginx-server", "sh", "-c", OpensslCmd>>
LogsArgs == <<"compose", "logs", "--tail", "10", "nginx">>
ReloadArgs == <<"compose", "exec", "nginx", "nginx", "-s", "reload">>
\* nginx_ssl_renew_certificates (the scripts shortened)
ExpiryArgs(domain) ==
    <<"exec", "nginx-server", "openssl", "x509", "-in", "/etc/nginx/ssl/" \o domain \o ".crt",
      "-text", "-noout", "|", "grep", "\"Not After\"", "|", "cut", "-d:", "-f2-">>
RenewArgs(domain) ==
    <<"run", "--rm", "-v", "nginx-letsencrypt:/etc/letsencrypt", "certbot/certbot",
      "certbot renew --cert-name " \o domain>>
CopyArgs(domain) ==
    <<"exec", "nginx-server", "sh", "-c", "docker cp fullchain.pem privkey.pem " \o domain>>
\* nginx_ssl_install_lets_encrypt
CertbotCheckArgs == <<"run", "--rm", "certbot/certbot", "certbot", "--version">>
CertbotArgs(domain, email) ==
    <<"run", "--rm", "-v", "nginx-letsencrypt:/etc/letsencrypt", "certbot/certbot", "sh", "-c",
      "certbot certonly --standalone --agree-tos --email " \o email \o " -d " \o domain>>
\* nginx_ssl_install_custom_cert
CpArgs(path, domain, ext) == <<"cp", path, "nginx-server:/etc/nginx/ssl/" \o domain \o ext>>
ChmodArgs(domain) == <<"exec", "nginx-server", "chmod", "600", "/etc/nginx/ssl/" \o domain \o ".key">>

\* ---- certificate dates ----
\* what the expiry command prints: nothing, or a date 30 or 31 days from now
NearDate == " Dec  1 00:00:00 2026 GMT"
FarDate == " Dec  2 00:00:00 2026 GMT"
ExpiryOutputs == {"", NearDate, FarDate}
NoDate == [valid |-> FALSE, days |-> 0]
\* Math.ceil((new Date(stdout.trim()) - new Date()) / (1000 * 60 * 60 * 24));
\* valid = FALSE is the Invalid Date, whose difference is NaN
daysUntilExpiry(stdout) ==
    CASE stdout = NearDate -> [valid |-> TRUE, days |-> 30]
      [] stdout = FarDate -> [valid |-> TRUE, days |-> 31]
      [] OTHER -> NoDate

\* the standard output a command can produce
Outputs(args) ==
    IF args \in {ExpiryArgs("localhost"), ExpiryArgs("example.com")} THEN ExpiryOutputs ELSE Texts

RobustResults(args) ==
    RobustResultsOf(args, QuietCloseCodes, Outputs(args), QuietTexts,
                    WithStdout(QuietExecOutcomes, Outputs(args)),
                    WithStdout(QuietSyncOutcomes, Outputs(args)))

\* axios.get: a response with its body, or an error with its message
HttpOutcomes ==
    {[ok |-> TRUE, data |-> d, message |-> ""] : d \in Texts}
    \cup {[ok |-> FALSE, data |-> "", message |-> m] :
            m \in {"connect ECONNREFUSED", "timeout of 5000ms exceeded"}}

\* ---- the operations ----
HttpTools == {"nginx_connectivity_test", "nginx_simple_status", "nginx_get_config"}
Resources == {"nginx://config"}
DockerTools == {"nginx_logs_basic", "nginx_reload"}
SslTools == {"nginx_ssl_generate_self_signed", "nginx_ssl_install_lets_encrypt",
             "nginx_ssl_setup_redirect", "nginx_ssl_renew_certificates",
             "nginx_ssl_install_custom_cert"}
Operations == HttpTools \cup Resources \cup DockerTools \cup SslTools

\* the arguments a client sends with a request
ClientArgs == {<<>>, <<"example.com", "admin@example.com">>}

MissingParameters == "Missing required parameters!"
InvalidTime == "Invalid time value"

\* mutant: the arguments of the request handed to the handler
HandlerArgsPassed(reqArgs) == reqArgs

\* sslTools.forEach(... async () => createResponse(await handler())):
\* the handler is called with no arguments
HandlerArgs(reqArgs) == <<>>

\* the value of the i-th parameter: its default when no argument is passed
Param(args, i, default) == IF i <= Len(args) THEN args[i] ELSE default

\* createResponse(text) returned by the registered callback
Answer(h, text) == [h EXCEPT !.status = "answered", !.pos = "done", !.answer = text]
\* the registered callback rejects: nothing is returned
Reject(h) == [h EXCEPT !.status = "rejected", !.pos = "done"]
\* `await executeDockerCommandRobust(args)` or `await axios.get(url)`
Issue(h, pos, args) == [h EXCEPT !.status = "running", !.pos = pos, !.issued = Append(@, args)]

\* the synchronous start of each handler
Begin(o, reqArgs) ==
    LET args == IF o \in SslTools THEN HandlerArgs(reqArgs) ELSE <<>>
        h == [Idle EXCEPT !.op = o, !.request = reqArgs, !.args = args]
    IN  CASE o = "nginx_connectivity_test" -> Issue(h, "http", <<server.NGINX_URL \o "/nginx_status">>)
          [] o = "nginx_simple_status" -> Issue(h, "http", <<server.NGINX_URL \o "/nginx_status">>)
          [] o = "nginx_get_config" -> Issue(h, "http", <<server.NGINX_URL \o "/nginx_conf">>)
          [] o = "nginx://config" -> Issue(h, "http", <<server.NGINX_URL \o "/nginx_conf">>)
          [] o = "nginx_logs_basic" -> Issue(h, "logs", LogsArgs)
          [] o = "nginx_reload" -> Issue(h, "reload", ReloadArgs)
          [] o = "nginx_ssl_generate_self_signed" ->
                Issue([h EXCEPT !.domain = Param(args, 1, "localhost")], "mkdir", MkdirArgs)
          [] o = "nginx_ssl_install_lets_encrypt" ->
                LET domain == Param(args, 1, Undefined)
                    email == Param(args, 2, Undefined)
                IN  IF domain \in Falsy \/ email \in Falsy
                    THEN Answer([h EXCEPT !.domain = domain], MissingParameters)
                    ELSE Issue([h EXCEPT !.domain = domain], "certbotCheck", CertbotCheckArgs)
          [] o = "nginx_ssl_setup_redirect" ->
                LET domain == Param(args, 1, "localhost")
                IN  Answer([h EXCEPT !.domain = domain],
                           "HTTP to HTTPS Redirect Configuration Domain: " \o domain)
          [] o = "nginx_ssl_renew_certificates" ->
                LET domain == Param(args, 1, "localhost")
                IN  Issue([h EXCEPT !.domain = domain], "expiryCheck", ExpiryArgs(domain))
          [] o = "nginx_ssl_install_custom_cert" ->
                LET certPath == Param(args, 1, Undefined)
                    keyPath == Param(args, 2, Undefined)
                    domain == Param(args, 3, "localhost")
                IN  IF certPath \in Falsy \/ keyPath \in Falsy
                    THEN Answer([h EXCEPT !.domain = domain], MissingParameters)
                    ELSE Issue([h EXCEPT !.domain = domain], "mkdir", MkdirArgs)

\* ---- the HTTP handlers, continued when axios.get settles ----
nginx_connectivity_test(h, out) ==
    IF out.ok
    THEN Answer(h, "NGINX connectivity test successful! Response: " \o out.data)
    ELSE Answer(h, "NGINX connectivity test failed! Error: " \o out.message)

nginx_simple_status(h, out) ==
    IF out.ok THEN Answer(h, out.data) ELSE Answer(h, "Error: " \o out.message)

\* configTools.forEach wraps the handler in try / catch
nginx_get_config(h, out) ==
    IF out.ok
    THEN Answer(h, "NGINX Configuration " \o out.data)
    ELSE Answer(h, "Error: " \o out.message)

\* the nginx://config resource (lines 615-621): no try / catch
nginx_config_resource(h, out) ==
    IF out.ok THEN Answer(h, out.data) ELSE Reject(h)

\* ---- the Docker handlers, continued when the cascade returns r ----
\* the method label of nginx_logs_basic (line 180)
method(r) ==
    IF r.debug.syncFallback THEN "Synchronous"
    ELSE IF r.debug.fallbackUsed THEN "Async Fallback"
    ELSE "Primary Async"

nginx_logs_basic(h, r) ==
    IF r.success
    THEN Answer([h EXCEPT !.method = method(r)],
                "NGINX Logs (10 most recent lines) Method: " \o method(r) \o " Logs: " \o r.stdout)
    ELSE Answer(h, "Error: " \o r.stderr)

nginx_reload(h, r) ==
    IF r.success
    THEN Answer(h, "NGINX configuration reloaded successfully! Output: "
                   \o Or(r.stdout, "Configuration reloaded without errors"))
    ELSE Answer(h, "Failed to reload NGINX configuration: " \o r.stderr)

nginx_ssl_generate_self_signed(h, r) ==
    CASE h.pos = "mkdir" ->
            IF ~r.success
            THEN Answer(h, "Failed to create SSL directory: " \o r.stderr)
            ELSE Issue(h, "cert", OpensslArgs)
      [] h.pos = "cert" ->
            IF ~r.success
            THEN Answer(h, "Failed to generate self-signed certificate: " \o r.stderr)
            ELSE Answer(h, "Self-signed SSL certificate generated successfully! Domain: " \o h.domain)

nginx_ssl_install_lets_encrypt(h, r) ==
    CASE h.pos = "certbotCheck" ->
            IF ~r.success
            THEN Answer(h, "Certbot not available.")
            ELSE Issue(h, "cert", CertbotArgs(h.domain, h.args[2]))
      [] h.pos = "cert" ->
            IF ~r.success
            THEN Answer(h, "Failed to obtain Let's Encrypt certificate: " \o r.stderr)
            ELSE Issue(h, "copy", CopyArgs(h.domain))
      [] h.pos = "copy" ->
            Answer(h, "Let's Encrypt certificate installed successfully! Domain: " \o h.domain)

\* mutant: NGINX reloaded whether or not the certificate was copied
nginx_ssl_renew_certificatesNoCopyCheck(h, r) ==
    CASE h.pos = "expiryCheck" ->
            IF ~r.success
            THEN Answer(h, "Cannot check certificate expiry: " \o r.stderr)
            ELSE LET left == daysUntilExpiry(r.stdout)
                     g == [h EXCEPT !.expiry = left]
                 IN  IF left.valid /\ left.days > 30
                     THEN Answer(g, "Certificate renewal not needed Domain: " \o h.domain)
                     ELSE Issue(g, "renew", RenewArgs(h.domain))
      [] h.pos = "renew" ->
            IF ~r.success
            THEN Answer(h, "Certificate renewal failed: " \o r.stderr)
            ELSE Issue(h, "copy", CopyArgs(h.domain))
      [] h.pos = "copy" -> Issue(h, "reload", ReloadArgs)
      [] h.pos = "reload" ->
            \* expiryDate.toISOString() throws RangeError on an Invalid Date;
            \* the registered callback catches it
            IF h.expiry.valid
            THEN Answer(h, "SSL Certificate renewed successfully! Domain: " \o h.domain)
            ELSE Answer(h, "Error: " \o InvalidTime)

nginx_ssl_renew_certificates(h, r) ==
    CASE h.pos = "expiryCheck" ->
            IF ~r.success
            THEN Answer(h, "Cannot check certificate expiry: " \o r.stderr)
            ELSE LET left == daysUntilExpiry(r.stdout)
                     g == [h EXCEPT !.expiry = left]
                 IN  IF left.valid /\ left.days > 30
                     THEN Answer(g, "Certificate renewal not needed Domain: " \o h.domain)
                     ELSE Issue(g, "renew", RenewArgs(h.domain))
      [] h.pos = "renew" ->
            IF ~r.success
            THEN Answer(h, "Certificate renewal failed: " \o r.stderr)
            ELSE Issue(h, "copy", CopyArgs(h.domain))
      [] h.pos = "copy" ->
            IF ~r.success
            THEN Answer(h, "Certificate renewed but failed to copy to NGINX: " \o r.stderr)
            ELSE Issue(h, "reload", ReloadArgs)
      [] h.pos = "reload" ->
            \* expiryDate.toISOString() throws RangeError on an Invalid Date;
            \* the registered callback catches it
            IF h.expiry.valid
            THEN Answer(h, "SSL Certificate renewed successfully! Domain: " \o h.domain)
            ELSE Answer(h, "Error: " \o InvalidTime)

nginx_ssl_install_custom_cert(h, r) ==
    CASE h.pos = "mkdir" ->
            IF ~r.success
            THEN Answer(h, "Failed to create SSL directory: " \o r.stderr)
            ELSE Issue(h, "certCopy", CpArgs(h.args[1], h.domain, ".crt"))
      [] h.pos = "certCopy" ->
            IF ~r.success
            THEN Answer(h, "Failed to copy certificate: " \o r.stderr)
            ELSE Issue(h, "keyCopy", CpArgs(h.args[2], h.domain, ".key"))
      [] h.pos = "keyCopy" ->
            IF ~r.success
            THEN Answer(h, "Failed to copy private key: " \o r.stderr)
            ELSE Issue(h, "chmod", ChmodArgs(h.domain))
      [] h.pos = "chmod" ->
            IF ~r.success
            THEN Answer(h, "Warning: Failed to set private key permissions: " \o r.stderr)
            ELSE Answer(h, "Custom SSL certificate installed successfully! Domain: " \o h.domain)

\* the continuation of the handler that awaits the cascade; passed and last
\* keep what it has been given
Continue(h, r) ==
    LET g == [h EXCEPT !.passed = Append(@, r.success), !.last = r]
    IN  CASE h.op = "nginx_logs_basic" -> nginx_logs_basic(g, r)
          [] h.op = "nginx_reload" -> nginx_reload(g, r)
          [] h.op = "nginx_ssl_generate_self_signed" -> nginx_ssl_generate_self_signed(g, r)
          [] h.op = "nginx_ssl_install_lets_encrypt" -> nginx_ssl_install_lets_encrypt(g, r)
          [] h.op = "nginx_ssl_renew_certificates" -> nginx_ssl_renew_certificates(g, r)
          [] h.op = "nginx_ssl_install_custom_cert" -> nginx_ssl_install_custom_cert(g, r)

\* the variables of the engine, which the handlers reach only through the cascade
engine == <<pc, procs, events, timer, sigterm, spawnResult, execResult,
            syncResult, result, launched, requests, observed, host>>

\* ---- actions ----
\* node src/index.js: the module is evaluated
Load ==
    /\ server.status = "loading"
    /\ server' = LoadConfig(server)
    /\ UNCHANGED <<handler, engine>>

\* a client requests operation o; one request is served at a time
Request(o, reqArgs) ==
    /\ server.status = "up"
    /\ handler.status # "running"
    /\ handler' = Begin(o, reqArgs)
    /\ UNCHANGED <<server, engine>>

\* axios.get settles
HttpSettles(out) ==
    /\ handler.status = "running"
    /\ handler.pos = "http"
    /\ handler' = CASE handler.op = "nginx_connectivity_test" -> nginx_connectivity_test(handler, out)
                    [] handler.op = "nginx_simple_status" -> nginx_simple_status(handler, out)
                    [] handler.op = "nginx_get_config" -> nginx_get_config(handler, out)
                    [] handler.op = "nginx://config" -> nginx_config_resource(handler, out)
    /\ UNCHANGED <<server, engine>>

\* executeDockerCommandRobust returns r for the command issued last
RobustReturns(r) ==
    /\ handler.status = "running"
    /\ handler.pos # "http"
    /\ r \in RobustResults(handler.issued[Len(handler.issued)])
    /\ handler' = Continue(handler, r)
    /\ UNCHANGED <<server, engine>>

\* the values the cascade can return to any of the handlers
AllRobustResults ==
    UNION {RobustResults(a) :
            a \in {LogsArgs, ReloadArgs, MkdirArgs, OpensslArgs, ExpiryArgs("localhost"),
                   RenewArgs("localhost"), CopyArgs("localhost")}}

HandlerNext ==
    \/ Load
    \/ \E o \in Operations, reqArgs \in ClientArgs : Request(o, reqArgs)
    \/ \E out \in HttpOutcomes : HttpSettles(out)
    \/ \E r \in AllRobustResults : RobustReturns(r)

\* the process starts with any environment, config.json present or not
ServerInit ==
    /\ EngineInit
    /\ server \in {Loading(env, file) : env \in Envs, file \in ConfigFiles}
    /\ handler = Idle

HandlerSpec == ServerInit /\ [][HandlerNext]_vars

\* ======================= properties =======================

Strategies == <<"spawn", "exec", "execSync">>
Returned(c) == pc[c] = "returned"
IsPrefix(s, t) == Len(s) <= Len(t) /\ \A i \in 1..Len(s) : s[i] = t[i]

\* the prior errors a returned value records, in order
PriorErrors(r) ==
    (IF r.debug.primaryError = Undefined THEN <<>> ELSE <<r.debug.primaryError>>)
    \o (IF r.debug.secondaryError = Undefined THEN <<>> ELSE <<r.debug.secondaryError>>)

\* C1: executeDockerCommandRobust never throws or rejects, and a call that
\* has returned holds a result object built by one of the strategies or by
\* the all-failed branch, whatever the three attempts did.
NeverThrows ==
    \A c \in Calls :
        /\ pc[c] # "rejected"
        /\ Returned(c) =>
            /\ result[c] # Unset
            /\ result[c].debug.method \in {"spawn", "exec", "execSync", "all_failed"}
            /\ result[c].success \in BOOLEAN

\* C1 witness: a call returned after the child could not be spawned, exec
\* could not start its shell and execSync threw.
NeverThrowsWitness ==
    \E c \in Calls :
        /\ Returned(c)
        /\ spawnResult[c].debug.error = SpawnErrorMessage
        /\ execResult[c].code = "ENOENT"
        /\ syncResult[c].debug.error = ExecErrorMessage

\* C2: when the streaming attempt succeeds the call returns that outcome
\* with no fallback marker and no prior errors, and exec and execSync are
\* not started; when the buffered attempt succeeds execSync is not started.
FirstSuccessShortCircuit ==
    \A c \in Calls :
        /\ spawnResult[c].success =>
            /\ Returned(c)
            /\ result[c] = spawnResult[c]
            /\ ~result[c].debug.fallbackUsed
            /\ PriorErrors(result[c]) = <<>>
            /\ launched[c] = <<"spawn">>
        /\ execResult[c].success =>
            /\ Returned(c)
            /\ launched[c] = <<"spawn", "exec">>

\* C2 witness: a streaming attempt that succeeded with some output.
FirstSuccessWitness ==
    \E c \in Calls : spawnResult[c].success /\ result[c].stdout # "" /\ Returned(c)

\* C3: a fallback that succeeds returns its own outcome with fallbackUsed
\* set and the stderr of the earlier failed attempts in attempt order.
FallbackRecordsPriorErrors ==
    \A c \in Calls :
        Returned(c) =>
            /\ result[c].debug.method = "exec" =>
                /\ result[c].stdout = execResult[c].stdout
                /\ result[c].stderr = execResult[c].stderr
                /\ result[c].code = execResult[c].code
                /\ result[c].success /\ execResult[c].success
                /\ result[c].debug.fallbackUsed
                /\ ~spawnResult[c].success
                /\ PriorErrors(result[c]) = <<spawnResult[c].stderr>>
            /\ result[c].debug.method = "execSync" =>
                /\ result[c].stdout = syncResult[c].stdout
                /\ result[c].stderr = syncResult[c].stderr
                /\ result[c].code = syncResult[c].code
                /\ result[c].success /\ syncResult[c].success
                /\ result[c].debug.fallbackUsed
                /\ ~spawnResult[c].success /\ ~execResult[c].success
                /\ PriorErrors(result[c]) = <<spawnResult[c].stderr, execResult[c].stderr>>

\* C3 witness: execSync succeeded after two failures with different stderr.
FallbackWitness ==
    \E c \in Calls :
        /\ Returned(c)
        /\ result[c].debug.method = "execSync"
        /\ spawnResult[c].stderr # execResult[c].stderr

\* C4: when all three attempts failed the call returns the synthetic
\* all-failed outcome: success false, code 1, empty stdout, and stderr the
\* fixed prefix followed by the stderr of the synchronous attempt.
TotalExhaustion ==
    \A c \in Calls :
        (Returned(c) /\ syncResult[c] # Unset /\ ~syncResult[c].success) =>
            /\ ~spawnResult[c].success /\ ~execResult[c].success
            /\ result[c].success = FALSE
            /\ result[c].code = "1"
            /\ result[c].stdout = ""
            /\ result[c].stderr = "All execution methods failed. Last error: " \o syncResult[c].stderr
            /\ result[c].debug.method = "all_failed"

\* C4 witness: all three failed and execSync reported its own exit status 2.
TotalExhaustionWitness ==
    \E c \in Calls :
        /\ Returned(c)
        /\ syncResult[c].code = "2"
        /\ syncResult[c].stderr # ""
        /\ result[c].debug.method = "all_failed"

\* C5: the strategies start in the order spawn, exec, execSync, each at most
\* once, and one starts only after the one before it resolved as a failure.
CascadeOrder ==
    \A c \in Calls :
        /\ IsPrefix(launched[c], Strategies)
        /\ Len(launched[c]) >= 2 => (spawnResult[c] # Unset /\ ~spawnResult[c].success)
        /\ Len(launched[c]) >= 3 => (execResult[c] # Unset /\ ~execResult[c].success)
        /\ "exec" \in procs[c] => Len(launched[c]) = 2
        /\ "execSync" \in procs[c] => Len(launched[c]) = 3

\* C5 witness: execSync is running after both asynchronous attempts failed.
CascadeOrderWitness ==
    \E c \in Calls : "execSync" \in procs[c] /\ launched[c] = Strategies

\* C6 as stated: the processes of two strategies of one call never run at
\* the same time, also after the streaming attempt timed out.
NoParallelism ==
    \A c \in Calls : Cardinality(procs[c]) <= 1

\* C6 amended: the processes of two strategies of one call run at the same
\* time only when the streaming attempt timed out: its child was sent
\* SIGTERM and may still be running beside the one later strategy in progress.
NoParallelismExceptAfterTimeout ==
    \A c \in Calls :
        \/ Cardinality(procs[c]) <= 1
        \/ /\ Cardinality(procs[c]) = 2
           /\ "spawn" \in procs[c]
           /\ sigterm[c]
           /\ timer[c] = "fired"
           /\ spawnResult[c].debug.timeout

\* C6 witness: the timed-out child still runs while execSync runs.
ParallelAfterTimeoutWitness ==
    \E c \in Calls : procs[c] = {"spawn", "execSync"}

\* C7: when the timer fires first the child is sent SIGTERM and the promise
\* resolves at once, the child possibly still running, with the timeout
\* flag, code 124, success false, empty stdout and the timed-out stderr;
\* no event handled later changes that outcome.
StreamingTimeout ==
    /\ [](\A c \in Calls :
            timer[c] = "fired" =>
                /\ sigterm[c]
                /\ spawnResult[c].debug.timeout
                /\ spawnResult[c].code = "124"
                /\ ~spawnResult[c].success
                /\ spawnResult[c].stdout = ""
                /\ spawnResult[c].stderr = "Command timed out after 15 seconds"
                /\ pc[c] # "spawn")
    /\ [][\A c \in Calls :
            /\ (timer[c] = "expired" /\ timer'[c] = "fired") =>
                    (spawnResult[c] = Unset /\ procs'[c] \cap {"spawn"} = procs[c] \cap {"spawn"})
            /\ timer[c] = "fired" => spawnResult'[c] = spawnResult[c]]_vars

\* C7 witness: after the timeout the child exited with status 0 and its
\* close event has been handled.
StreamingTimeoutWitness ==
    \E c \in Calls :
        /\ timer[c] = "fired"
        /\ spawnResult[c].debug.timeout
        /\ "spawn" \notin procs[c]
        /\ events[c] = <<>>

\* C8: once the promise resolved through close or error the timer is
\* cancelled: it never fires and no SIGTERM is sent.
TimerCleanup ==
    \A c \in Calls :
        (spawnResult[c] # Unset /\ ~spawnResult[c].debug.timeout) =>
            /\ timer[c] = "cleared"
            /\ ~sigterm[c]

\* C8 witness: the call went on to exec after a close with a non-zero status.
TimerCleanupWitness ==
    \E c \in Calls :
        /\ spawnResult[c].code = "2"
        /\ timer[c] = "cleared"
        /\ pc[c] = "exec"

RanNonZero(r) ==
    r.debug.method = "spawn" /\ r.code \in ExitCodes /\ r.debug.error = Undefined

\* C10 as stated: a command that ran and exited non-zero has its exit code
\* and stderr returned unchanged, and the all-failed outcome is returned
\* only when the command could not be started.
NonZeroExitVerbatim ==
    \A c \in Calls :
        Returned(c) =>
            /\ RanNonZero(spawnResult[c]) =>
                /\ result[c].code = spawnResult[c].code
                /\ result[c].stderr = spawnResult[c].stderr
            /\ result[c].debug.method = "all_failed" =>
                spawnResult[c].debug.error # Undefined

\* C11 as stated: whenever an attempt of any strategy ends because the
\* command exceeded TIMEOUT, its outcome carries the timeout flag and code
\* 124, so an outcome without the flag was not caused by a timeout.
TimeoutDistinguishable ==
    /\ [](\A c \in Calls :
            timer[c] = "fired" =>
                (spawnResult[c].debug.timeout /\ spawnResult[c].code = "124"))
    /\ [][\A c \in Calls :
            /\ \A raw \in ExecOutcomes :
                (raw.killed /\ ExecCallback(c, raw)) =>
                    (execResult'[c].debug.timeout /\ execResult'[c].code = "124")
            /\ \A raw \in SyncOutcomes :
                (raw.code = "ETIMEDOUT" /\ SyncReturn(c, raw)) =>
                    (syncResult'[c].debug.timeout /\ syncResult'[c].code = "124")]_vars

\* the outcome of the strategy the call attempted last
LastOutcome(c) ==
    CASE Len(launched[c]) = 1 -> spawnResult[c]
      [] Len(launched[c]) = 2 -> execResult[c]
      [] OTHER -> syncResult[c]

\* C12 as stated: a returned result records as many prior errors as
\* strategies were attempted before the last one, and none exactly when the
\* streaming attempt succeeded.
PriorErrorsCountAttempts ==
    \A c \in Calls :
        Returned(c) =>
            /\ Len(PriorErrors(result[c])) = Len(launched[c]) - 1
            /\ (PriorErrors(result[c]) = <<>>) <=> spawnResult[c].success

\* C12 amended: a result produced by a strategy records as many prior errors
\* as strategies were attempted before that one, none exactly when that was
\* the streaming attempt; the all-failed result records no prior error
\* although three strategies were attempted.
PriorErrorsCountUnlessExhausted ==
    \A c \in Calls :
        Returned(c) =>
            IF result[c].debug.method = "all_failed"
            THEN /\ PriorErrors(result[c]) = <<>>
                 /\ ~result[c].debug.fallbackUsed
                 /\ Len(launched[c]) = 3
                 /\ ~spawnResult[c].success
            ELSE /\ Len(PriorErrors(result[c])) = Len(launched[c]) - 1
                 /\ (PriorErrors(result[c]) = <<>>) <=> spawnResult[c].success

\* C12 witness: an all-failed result without prior errors after a streaming
\* attempt that failed with some stderr.
PriorErrorsWitness ==
    \E c \in Calls :
        /\ Returned(c)
        /\ result[c].debug.method = "all_failed"
        /\ PriorErrors(result[c]) = <<>>
        /\ spawnResult[c].stderr \notin {"", Undefined}

Outcomes(c) == {spawnResult[c], execResult[c], syncResult[c], result[c]} \ {Unset}

\* C14 as stated: in every outcome success is true exactly when the code
\* field is 0.
SuccessIffCodeZero ==
    \A c \in Calls : \A r \in Outcomes(c) : r.success <=> (r.code = "0")

\* C15: when the 'error' event of a failed spawn is handled the promise
\* resolves (nothing is thrown) with code 1, success false, the error
\* message of the operating system, empty stdout and no timeout flag.
SpawnFailureOutcome ==
    [][\A c \in Calls :
        (/\ events[c] # <<>>
         /\ Head(events[c]).type = "error"
         /\ events'[c] = Tail(events[c])) =>
            /\ pc[c] = "spawn" /\ pc'[c] \notin {"spawn", "rejected"}
            /\ spawnResult'[c].code = "1"
            /\ ~spawnResult'[c].success
            /\ spawnResult'[c].debug.error = SpawnErrorMessage
            /\ spawnResult'[c].stderr = SpawnErrorMessage
            /\ spawnResult'[c].stdout = ""
            /\ ~spawnResult'[c].debug.timeout]_vars

\* C15 witness: the error and the close event of a failed spawn were handled.
SpawnFailureWitness ==
    \E c \in Calls :
        /\ spawnResult[c].debug.error = SpawnErrorMessage
        /\ events[c] = <<>>
        /\ timer[c] = "cleared"
        /\ pc[c] = "exec"

\* C16 as stated: when no strategy could launch the binary the returned
\* result has success false, code 1, a non-empty error message field and no
\* timeout flag.
UnlaunchableResult ==
    \A c \in Calls :
        (/\ Returned(c)
         /\ spawnResult[c].debug.error = SpawnErrorMessage
         /\ execResult[c].code = "ENOENT"
         /\ syncResult[c] # Unset /\ ~syncResult[c].success) =>
            /\ ~result[c].success
            /\ result[c].code = "1"
            /\ result[c].debug.error \notin {Undefined, ""}
            /\ ~result[c].debug.timeout

\* C18: a failed exec or execSync attempt throws nothing and yields success
\* false, the code of the failure (1 when it has none) and the stderr of the
\* failure (its message when that is empty); exec keeps the partial stdout.
FailedFallbackOutcome ==
    [][\A c \in Calls :
        /\ \A raw \in ExecOutcomes :
            (~raw.ok /\ ExecCallback(c, raw)) =>
                /\ pc'[c] # "rejected"
                /\ ~execResult'[c].success
                /\ execResult'[c].code = (IF raw.code = Null THEN "1" ELSE raw.code)
                /\ execResult'[c].stderr = (IF raw.stderr = "" THEN raw.message ELSE raw.stderr)
                /\ execResult'[c].stdout = raw.stdout
        /\ \A raw \in SyncOutcomes :
            (~raw.ok /\ SyncReturn(c, raw)) =>
                /\ pc'[c] # "rejected"
                /\ ~syncResult'[c].success
                /\ syncResult'[c].code = (IF raw.status = Null THEN "1" ELSE raw.status)
                /\ syncResult'[c].stderr = (IF raw.stderr = "" THEN raw.message ELSE raw.stderr)]_vars

\* C18 witness: exec failed with partial stdout and no stderr, execSync
\* failed with stderr and without a status.
FailedFallbackWitness ==
    \E c \in Calls :
        /\ Returned(c)
        /\ ~execResult[c].success
        /\ execResult[c].stdout # ""
        /\ execResult[c].stderr = ExecErrorMessage
        /\ ~syncResult[c].success
        /\ syncResult[c].stderr \notin {"", ExecErrorMessage}
        /\ syncResult[c].code = "1"

\* C17 as stated: every strategy attempted within one call is given the
\* same request: argument vector, working directory, environment, timeout.
SameRequest ==
    \A c \in Calls :
        \A i, j \in 1..Len(requests[c]) : requests[c][i] = requests[c][j]

\* a callback of call d that the event loop has pending is able to run
CanProgress(d) ==
    /\ timer[d] = "expired" => ENABLED OnTimeout(d)
    /\ (events[d] # <<>> /\ Head(events[d]).type = "close")
          => ENABLED (\E o \in QuietTexts, e \in QuietTexts : OnClose(d, o, e))
    /\ (events[d] # <<>> /\ Head(events[d]).type = "error") => ENABLED OnError(d)
    /\ pc[d] = "exec" => ENABLED (\E raw \in QuietExecOutcomes : ExecCallback(d, raw))

\* a step processes an event of call d: its timer callback, a child event
\* of its streaming attempt, or the completion of its buffered attempt
Processed(d) ==
    \/ pc'[d] # pc[d]
    \/ timer'[d] \notin {timer[d], "expired"}
    \/ Len(events'[d]) < Len(events[d])
    \/ sigterm'[d] # sigterm[d]
    \/ spawnResult'[d] # spawnResult[d]
    \/ execResult'[d] # execResult[d]
    \/ result'[d] # result[d]

\* C19: only the synchronous strategy blocks the host. While a call awaits
\* its streaming or buffered attempt and no call is inside execSync, every
\* pending callback of the other call can run; from the start to the end of
\* a call's synchronous attempt no step processes an event of another call.
OnlySyncBlocks ==
    /\ [](\A c \in DiagnosticsCalls : \A d \in DiagnosticsCalls \ {c} :
            (pc[c] \in {"spawn", "exec"} /\ \A e \in Calls : pc[e] # "sync")
                => CanProgress(d))
    /\ [][\A c \in DiagnosticsCalls : \A d \in DiagnosticsCalls \ {c} :
            pc[c] = "sync" => ~Processed(d)]_vars

\* one call is inside execSync while the other one's timer has expired or
\* its close event is pending
OnlySyncBlocksWitness ==
    \E c \in DiagnosticsCalls : \E d \in DiagnosticsCalls \ {c} :
        /\ pc[c] = "sync"
        /\ pc[d] = "spawn"
        /\ timer[d] = "expired" \/ events[d] # <<>>

\* C20: no ordering and no mutual exclusion across calls. The second call of
\* the Promise.all is issued whatever the first one has running, the
\* children of both calls can exit whatever the other call is doing, and a
\* call's pending close is handled without waiting for the other call.
NoMutualExclusion ==
    \A c \in DiagnosticsCalls : \A d \in DiagnosticsCalls \ {c} :
        /\ (pc[d] = "idle" /\ pc[c] # "idle") => ENABLED RobustCall(d, TRUE)
        /\ "spawn" \in procs[d] => ENABLED ChildExit(d, "0")
        /\ (events[d] # <<>> /\ Head(events[d]).type = "close" /\ host = Free /\ pc[c] # "returned")
              => ENABLED (\E o \in QuietTexts, e \in QuietTexts : OnClose(d, o, e))

\* the call issued second has returned the outcome of its own process while
\* the process of the call issued first is still running
NoMutualExclusionWitness ==
    \E c \in DiagnosticsCalls : \E d \in DiagnosticsCalls \ {c} :
        /\ c < d
        /\ Returned(d)
        /\ result[d].debug.method = "spawn"
        /\ result[d].success
        /\ pc[c] = "spawn"
        /\ "spawn" \in procs[c]

\* C25: a returned result is either a success with exit code 0 or the
\* all-failed outcome with exit code 1; it never has code 124, never the
\* timeout flag, and never the non-zero exit code a strategy reported.
ReturnedCodes ==
    \A c \in Calls :
        Returned(c) =>
            /\ \/ /\ result[c].success
                  /\ result[c].code = "0"
                  /\ result[c].debug.method \in {"spawn", "exec", "execSync"}
               \/ /\ ~result[c].success
                  /\ result[c].code = "1"
                  /\ result[c].debug.method = "all_failed"
            /\ result[c].code # "124"
            /\ ~result[c].debug.timeout

\* C25 witness: the streaming attempt timed out (124, timeout flag), exec
\* and execSync reported exit status 2, and the call returned.
ReturnedCodesWitness ==
    \E c \in Calls :
        /\ Returned(c)
        /\ spawnResult[c].code = "124" /\ spawnResult[c].debug.timeout
        /\ execResult[c].code = CodePool[2]
        /\ syncResult[c].code = CodePool[2]

\* C26: when the close event of the streaming attempt carries no exit code
\* (the child was ended by a signal) and settles the promise, the outcome
\* has success false and the call starts the buffered strategy instead of
\* returning.
SignalledCloseFails ==
    [][\A c \in Calls :
        (/\ spawnResult[c] = Unset
         /\ events[c] # <<>>
         /\ Head(events[c]).type = "close"
         /\ Head(events[c]).code = Null
         /\ events'[c] = Tail(events[c])) =>
            /\ spawnResult'[c] # Unset
            /\ spawnResult'[c].debug.method = "spawn"
            /\ ~spawnResult'[c].success
            /\ pc'[c] = "exec"
            /\ launched'[c] = <<"spawn", "exec">>
            /\ "exec" \in procs'[c]
            /\ result'[c] = Unset]_vars

\* C26 witness: the buffered attempt is in progress after the child of the
\* streaming attempt was ended by a signal before the timer fired.
SignalledCloseWitness ==
    \E c \in Calls :
        /\ pc[c] = "exec"
        /\ spawnResult[c].debug.method = "spawn"
        /\ ~spawnResult[c].debug.timeout
        /\ spawnResult[c].debug.error = Undefined
        /\ spawnResult[c].code = "0"
        /\ ~spawnResult[c].success

\* the number of strategies a returned result says were attempted
Attempts(r) ==
    CASE r.debug.method = "spawn" -> 1
      [] r.debug.method = "exec" -> 2
      [] OTHER -> 3

\* C28: a call launches the command once per attempted strategy: once when
\* streaming succeeds, twice when buffered is the first to succeed, three
\* times otherwise; a command that runs and exits non-zero in every
\* attempt has been launched three times when the call returns.
LaunchCount ==
    \A c \in Calls :
        /\ Len(launched[c]) = Len(requests[c])
        /\ Returned(c) =>
            /\ Len(launched[c]) = Attempts(result[c])
            /\ \A i, j \in 1..Len(launched[c]) : launched[c][i] = launched[c][j] => i = j
            /\ (spawnResult[c].success <=> Len(launched[c]) = 1)
            /\ (execResult[c].success <=> Len(launched[c]) = 2)
            /\ RanNonZero(spawnResult[c]) => Len(launched[c]) >= 2
            /\ (RanNonZero(spawnResult[c]) /\ execResult[c].code \in ExitCodes)
                  => Len(launched[c]) = 3

\* C28 witness: the command exited with status 1 under spawn, exec and
\* execSync and the call has returned.
LaunchCountWitness ==
    \E c \in Calls :
        /\ Returned(c)
        /\ RanNonZero(spawnResult[c]) /\ spawnResult[c].code = "1"
        /\ execResult[c].code = "1"
        /\ syncResult[c].code = "1" /\ ~syncResult[c].success
        /\ launched[c] = <<"spawn", "exec", "execSync">>

\* C27 as stated: a streaming attempt whose child exited with status 0
\* before the deadline is never resolved as timed out.
NoFalseTimeout ==
    \A c \in Calls :
        (spawnResult[c] # Unset /\ spawnResult[c].debug.timeout) =>
            ~\E i \in 1..Len(events[c]) :
                /\ events[c][i].type = "close"
                /\ events[c][i].code = "0"
                /\ events[c][i].inTime

EveryOperationAnswers ==
    /\ handler.status # "rejected"
    /\ handler.status = "answered" => handler.answer # Undefined

\* C23 as stated: a value set in the environment is used instead of the one
\* in config.json, for the NGINX URL and for the working directory.
EnvOverridesConfig ==
    server.status = "up" =>
        /\ server.PROJECT_DIR = Or(server.env.PROJECT_DIR, server.config.project.directory)
        /\ server.NGINX_URL = "http://" \o Or(server.env.NGINX_HOST, server.config.nginx.host)
                                \o ":" \o Or(server.env.NGINX_PORT, server.config.nginx.port)

\* C24: no result the cascade returns has debug.syncFallback set, so
\* nginx_logs_basic never answers 'Synchronous': for a success it answers
\* 'Async Fallback' exactly when fallbackUsed is set, also when execSync
\* produced the result, and 'Primary Async' otherwise.
NeverSynchronous ==
    /\ handler.last # Unset => ~handler.last.debug.syncFallback
    /\ (handler.op = "nginx_logs_basic" /\ handler.status = "answered") =>
          IF handler.last.success
          THEN /\ handler.method \in {"Async Fallback", "Primary Async"}
               /\ handler.method = "Async Fallback" <=> handler.last.debug.fallbackUsed
               /\ handler.last.debug.method = "execSync" => handler.method = "Async Fallback"
               /\ handler.last.debug.method = "spawn" => handler.method = "Primary Async"
          ELSE handler.method = Undefined

\* C24 witness: nginx_logs_basic answered with the output of execSync.
NeverSynchronousWitness ==
    /\ handler.op = "nginx_logs_basic"
    /\ handler.status = "answered"
    /\ handler.last.success
    /\ handler.last.debug.method = "execSync"
    /\ handler.method = "Async Fallback"

RenewedSuccessfully == "SSL Certificate renewed successfully! Domain: localhost"

\* C30: nginx_ssl_renew_certificates issues expiry check, renew, copy and
\* reload in this order, each after the one before succeeded; it stops
\* after a failed expiry check or with more than 30 days left, after a
\* failed renew and after a failed copy; it reports success only when the
\* reload has been issued and has returned.
RenewOrder ==
    handler.op = "nginx_ssl_renew_certificates" =>
        LET d == handler.domain
            n == Len(handler.issued)
            stopped == handler.status = "answered" /\ Len(handler.passed) = n
        IN  /\ IsPrefix(handler.issued, <<ExpiryArgs(d), RenewArgs(d), CopyArgs(d), ReloadArgs>>)
            /\ n >= 1
            /\ Len(handler.passed) \in {n - 1, n}
            /\ \A i \in 2..n : handler.passed[i - 1]
            /\ n >= 2 => ~(handler.expiry.valid /\ handler.expiry.days > 30)
            /\ (Len(handler.passed) >= 1
                  /\ (~handler.passed[1] \/ (handler.expiry.valid /\ handler.expiry.days > 30)))
                  => (stopped /\ n = 1)
            /\ (Len(handler.passed) >= 2 /\ ~handler.passed[2]) => (stopped /\ n = 2)
            /\ (Len(handler.passed) >= 3 /\ ~handler.passed[3]) => (stopped /\ n = 3)
            /\ handler.answer = RenewedSuccessfully => (stopped /\ n = 4)

\* C30 witness: success is reported for a certificate with 30 days left
\* after the reload command was issued, and that reload failed.
RenewOrderWitness ==
    /\ handler.op = "nginx_ssl_renew_certificates"
    /\ handler.answer = RenewedSuccessfully
    /\ handler.expiry.days = 30
    /\ handler.passed = <<TRUE, TRUE, TRUE, FALSE>>

====
